---------------------------- MODULE Spec2Model ----------------------------
(***************************************************************************)
(* A model of bmpsss.c: (k, n) threshold secret image sharing over GF(257)  *)
(* with LSB steganography.  C arrays are modelled as functions on 0..len-1. *)
(* C integers wider than 31 bits (the 48-bit PRNG state) are kept as tuples *)
(* of 12-bit limbs, least significant first, so that every intermediate     *)
(* product stays inside the range of the model checker's integers.          *)
(***************************************************************************)
EXTENDS Integers, Sequences, FiniteSets, TLC

VARIABLES
    pc,        \* position of the running function
    k,         \* threshold (uint16_t k)
    n,         \* number of shadows (uint16_t n)
    bmp,       \* the bitmap being processed (the secret, or a carrier)
    rseed,     \* global PRNG state (static int64_t rseed), as limbs
    hist,      \* history of bmp.imgpixels and of the seeds applied to it
    seed,      \* PRNG seed (uint16_t seed)
    width,     \* -w: width of the secret (uint32_t width)
    height,    \* -h: height of the secret (int32_t height)
    shadows,   \* Bitmap **shadows, a sequence (shadows[i] of C is shadows[i+1])
    grp,       \* formshadows: j, the index of the pixel group being shared
    pixels,    \* formshadows: uint16_t pixels[n], the group's n evaluations
    mat,       \* revealsecret: int **mat, k rows of k+1 columns
    dir,       \* the directory that is enumerated: a sequence of entries
    filepaths, \* the entries getvalidfilenames selected, in order (positions in dir)
    cur,       \* distributeimage / recoverimage: the loop index i
    cwd,       \* the files written so far: shadow number -> bitmap
    out        \* the reconstructed secret written by recoverimage

paramVars == <<k, n, seed, width, height>>
shareVars == <<shadows, grp, pixels, mat>>
fileVars  == <<dir, filepaths, cur, cwd, out>>

vars == <<pc, k, n, seed, width, height, bmp, rseed, hist, shadows, grp, pixels,
          mat, dir, filepaths, cur, cwd, out>>

----------------------------------------------------------------------------
(* Generic helpers for C arrays and bytes *)

ArrLen(a) == Cardinality(DOMAIN a)

Byte == 0..255

RECURSIVE BitXor(_, _)
BitXor(a, b) ==
    IF a = 0 THEN b
    ELSE IF b = 0 THEN a
    ELSE (((a % 2) + (b % 2)) % 2) + 2 * BitXor(a \div 2, b \div 2)

----------------------------------------------------------------------------
(* PRNG: setseed / nextbyte, bmpsss.c 143-154 *)

LIMB == 4096

\* 25214903917 = 0x5DEECE66D = 0x5DE * 4096^2 + 0xECE * 4096 + 0x66D
MULTIPLIER == <<1645, 3790, 1502, 0>>

\* a non-negative int below 2^31 as four limbs
ToLimbs(s) == <<s % LIMB, (s \div LIMB) % LIMB, (s \div (LIMB * LIMB)) % LIMB, 0>>

\* rseed = (s ^ 25214903917LL) & 281474976710655LL
setseed(s) ==
    LET a == ToLimbs(s)
    IN  [i \in 1..4 |-> BitXor(a[i], MULTIPLIER[i]) % LIMB]

\* rseed = (rseed * 25214903917LL + 11LL) & 281474976710655LL
NextState(a) ==
    LET m  == MULTIPLIER
        c0 == a[1] * m[1] + 11
        c1 == a[1] * m[2] + a[2] * m[1] + (c0 \div LIMB)
        c2 == a[1] * m[3] + a[2] * m[2] + a[3] * m[1] + (c1 \div LIMB)
        c3 == a[1] * m[4] + a[2] * m[3] + a[3] * m[2] + a[4] * m[1] + (c2 \div LIMB)
    IN  <<c0 % LIMB, c1 % LIMB, c2 % LIMB, c3 % LIMB>>

\* n = rseed >> 17 is bits 17..47 of the state; 256 * n >> 31 is bits 40..47,
\* which are the high 8 bits of the top limb (bits 36..47).
nextbyte(a) ==
    LET s == NextState(a)
    IN  [rseed |-> s, byte |-> s[4] \div 16]

\* one turn of the loop of randomtable: table[i] = nextbyte()
StreamStep(sa) ==
    LET r == nextbyte(sa.rseed)
    IN  [rseed |-> r.rseed, table |-> Append(sa.table, r.byte)]

\* cnt turns of that loop, one after the other.  The turns are split in halves
\* and the first half is tested before the second starts, which only keeps the
\* evaluation shallow: the test is always true.
RECURSIVE Stream(_, _)
Stream(sa, cnt) ==
    IF cnt = 0 THEN sa
    ELSE IF cnt = 1 THEN StreamStep(sa)
    ELSE LET half == Stream(sa, cnt \div 2)
         IN  IF Len(half.table) >= 0 THEN Stream(half, cnt - (cnt \div 2)) ELSE sa

\* a mutant that keeps drawing from the current state instead of re-seeding
randomtableNoReseed(st, tablesize, sd) ==
    LET r == Stream([rseed |-> st, table |-> <<>>], tablesize)
    IN  [rseed |-> r.rseed, table |-> [i \in 0..tablesize-1 |-> r.table[i+1]]]

\* randomtable(tablesize, seed): st is the global state on entry
randomtable(st, tablesize, sd) ==
    LET r == Stream([rseed |-> setseed(sd), table |-> <<>>], tablesize)
    IN  [rseed |-> r.rseed, table |-> [i \in 0..tablesize-1 |-> r.table[i+1]]]

\* xorbmpwithrandomtable(bmp, seed): the new pixel array and the new global state
xorbmpwithrandomtable(st, px, sd) ==
    LET imgsize == ArrLen(px)
        r       == randomtable(st, imgsize, sd)
    IN  [rseed  |-> r.rseed,
         pixels |-> [i \in 0..imgsize-1 |-> BitXor(px[i], r.table[i])]]

----------------------------------------------------------------------------
(* Bounds of the mask model *)

MaxMaskLen == 2          \* longest pixel array that is masked
MaxMaskOps == 3          \* how many masks are applied in one behaviour

Seeds == {0, 691, 65535}
PixelSamples == {0, 165}

ZeroState == <<0, 0, 0, 0>>   \* static storage is zero-initialised

\* A Bitmap keeps the header fields the program reads (width, height, the two
\* reserved slots) and its pixel array; bmpheader.size - bmpheader.offset and
\* dibheader.pixelarraysize are the length the array was allocated with.
Bitmap(w, h, sd, shadnum, px) ==
    [width |-> w, height |-> h, unused1 |-> sd, unused2 |-> shadnum,
     imgpixels |-> px]

NoBmp == Bitmap(0, 0, 0, 0, <<>>)
NoHist == [pixels |-> <<>>, seeds |-> <<>>, entry |-> <<>>, others |-> 0]
NoFiles == [f \in {} |-> NoBmp]

\* the variables a specification does not use
IdleShare == shadows = <<>> /\ grp = 0 /\ pixels = <<>> /\ mat = <<>>
IdleFiles == dir = <<>> /\ filepaths = <<>> /\ cur = 0 /\ cwd = NoFiles /\ out = NoBmp

(* Specification of the mask: a bitmap is masked repeatedly, with tables for
   other bitmaps generated in between. *)
InitMask ==
    /\ pc = "mask"
    /\ k = 0 /\ n = 0 /\ seed = 0 /\ width = 0 /\ height = 0
    /\ IdleShare /\ IdleFiles
    /\ \E len \in 1..MaxMaskLen :
         \E px \in [0..len-1 -> PixelSamples] :
            /\ bmp = Bitmap(len, 1, 0, 0, px)
            /\ hist = [NoHist EXCEPT !.pixels = <<px>>]
    /\ rseed = ZeroState

MaskBmp ==
    /\ pc = "mask"
    /\ Len(hist.seeds) + hist.others < MaxMaskOps
    /\ \E s \in Seeds :
         LET r == xorbmpwithrandomtable(rseed, bmp.imgpixels, s)
         IN  /\ bmp' = [bmp EXCEPT !.imgpixels = r.pixels]
             /\ rseed' = r.rseed
             /\ hist' = [hist EXCEPT !.pixels = Append(@, r.pixels),
                                      !.seeds  = Append(@, s),
                                      !.entry  = Append(@, rseed)]
    /\ UNCHANGED <<pc, paramVars, shareVars, fileVars>>

\* a table for some other bitmap: only the global state moves
OtherTable ==
    /\ pc = "mask"
    /\ Len(hist.seeds) + hist.others < MaxMaskOps
    /\ \E s \in Seeds, len \in {0, MaxMaskLen + 1} :
         rseed' = randomtable(rseed, len, s).rseed
    /\ hist' = [hist EXCEPT !.others = @ + 1]
    /\ UNCHANGED <<pc, paramVars, bmp, shareVars, fileVars>>

NextMask == MaskBmp \/ OtherTable

SpecMask == InitMask /\ [][NextMask]_vars

\* C3: masking a bitmap twice in a row with the same seed restores its pixel
\* bytes, whatever the global PRNG state was before either application.
MaskInvolution ==
    \A i \in 1..Len(hist.seeds) - 1 :
        hist.seeds[i] = hist.seeds[i+1] => hist.pixels[i+2] = hist.pixels[i]

\* a bitmap was masked twice with one seed, the mask changed it, and a table
\* for another bitmap was generated in between: the global state on entry to
\* the second mask is not the one the first mask left
MaskInvolutionWitness ==
    /\ Len(hist.seeds) >= 2
    /\ hist.seeds[1] = hist.seeds[2]
    /\ hist.pixels[2] # hist.pixels[1]
    /\ hist.pixels[3] = hist.pixels[1]
    /\ hist.entry[2] #
         randomtable(hist.entry[1], ArrLen(bmp.imgpixels), hist.seeds[1]).rseed

----------------------------------------------------------------------------
(* Stego layer: hideshadow, bmpsss.c 538-558 *)

RIGHTMOST_BIT_ON(x)  == IF x % 2 = 0 THEN x + 1 ELSE x      \* x |= 0x01
RIGHTMOST_BIT_OFF(x) == x - (x % 2)                         \* x &= 0xFE

bmpimagesize(bp) == ArrLen(bp.imgpixels)

\* the content of memory that was allocated and not yet written
Indeterminate == -1

\* An access outside an allocation is undefined: the process may fault, or go
\* on; a read that goes on yields some byte, a write that goes on is not seen
\* again.  AccessOutcomes(outside) is what an access may do.
Fault == Indeterminate - 1
OutsideBytes == {0, 255}
AccessOutcomes(outside) == IF outside THEN {Fault} \cup OutsideBytes ELSE {0}

\* the inner loop: j runs from i*8 to 8*(i+1), byte is shifted left each turn.
\* A j beyond the carrier's pixel array is a write outside the allocation; this
\* operator keeps the array itself, HideOverflows tells that it happened.
RECURSIVE HideBits(_, _, _, _)
HideBits(px, j, last, byte) ==
    IF j >= last THEN px
    ELSE LET set == IF j \in DOMAIN px
                    THEN [px EXCEPT ![j] = IF byte \div 128 = 1
                                           THEN RIGHTMOST_BIT_ON(px[j])
                                           ELSE RIGHTMOST_BIT_OFF(px[j])]
                    ELSE px
         IN  HideBits(set, j + 1, last, (byte * 2) % 256)

\* a mutant that walks the shadow byte from its least significant bit
RECURSIVE HideBitsLsbFirst(_, _, _, _)
HideBitsLsbFirst(px, j, last, byte) ==
    IF j >= last THEN px
    ELSE LET set == IF j \in DOMAIN px
                    THEN [px EXCEPT ![j] = IF byte % 2 = 1
                                           THEN RIGHTMOST_BIT_ON(px[j])
                                           ELSE RIGHTMOST_BIT_OFF(px[j])]
                    ELSE px
         IN  HideBitsLsbFirst(set, j + 1, last, byte \div 2)

\* the outer loop over the shadow's pixels.  (The test of the new array is
\* always true: it makes the array be computed before the next turn starts.)
RECURSIVE HideLoop(_, _, _)
HideLoop(px, i, shadow) ==
    IF i >= bmpimagesize(shadow) THEN px
    ELSE LET next == HideBits(px, i * 8, 8 * (i + 1), shadow.imgpixels[i])
         IN  IF next = next THEN HideLoop(next, i + 1, shadow) ELSE px

HideOverflows(bp, shadow) == 8 * bmpimagesize(shadow) > bmpimagesize(bp)

\* a mutant of the whole function that embeds the bits in the wrong order
RECURSIVE HideLoopLsbFirst(_, _, _)
HideLoopLsbFirst(px, i, shadow) ==
    IF i >= bmpimagesize(shadow) THEN px
    ELSE LET next == HideBitsLsbFirst(px, i * 8, 8 * (i + 1), shadow.imgpixels[i])
         IN  IF next = next THEN HideLoopLsbFirst(next, i + 1, shadow) ELSE px

hideshadowLsbFirst(bp, shadow) ==
    [bp EXCEPT !.unused1 = shadow.unused1,
               !.unused2 = shadow.unused2,
               !.imgpixels = HideLoopLsbFirst(bp.imgpixels, 0, shadow)]

\* hideshadow(bp, shadow): the carrier as it is written to shadow<N>.bmp
hideshadow(bp, shadow) ==
    [bp EXCEPT !.unused1 = shadow.unused1,
               !.unused2 = shadow.unused2,
               !.imgpixels = HideLoop(bp.imgpixels, 0, shadow)]

\* bmptofile(bp, "shadow<N>.bmp"): the file system after the write
WriteShadowFile(files, bp) ==
    [f \in DOMAIN files \cup {bp.unused2} |->
        IF f = bp.unused2 THEN bp ELSE files[f]]

(* Bounds and inputs of the stego model *)

MaxShadowLen == 2        \* longest shadow pixel array that is hidden
MaxSlack == 1            \* how many 4-byte rows a carrier holds beyond 8*|S|

ShadowSamples == {0, 1, 128, 165, 255}
CarrierBases == {0, 254}
CarrierSteps == {0, 1, 37}

CarrierPixels(len, base, step) == [i \in 0..len-1 |-> (base + i * step) % 256]

(* Specification of the stego layer: one shadow is hidden in one carrier that
   is large enough for it. *)
InitHide ==
    /\ pc = "hideshadow"
    /\ k = 0 /\ n = 1 /\ seed = 691 /\ width = 0 /\ height = 0
    /\ rseed = ZeroState
    /\ grp = 0 /\ pixels = <<>> /\ mat = <<>>
    /\ IdleFiles
    /\ \E sl \in 1..MaxShadowLen, idx \in {1, 255} :
         \E spx \in [0..sl-1 -> ShadowSamples] :
            shadows = <<Bitmap(sl, 1, seed, idx, spx)>>
    /\ \E slack \in 0..MaxSlack, base \in CarrierBases, step \in CarrierSteps :
         LET len == 8 * bmpimagesize(shadows[1]) + 4 * slack
             px  == CarrierPixels(len, base, step)
         IN  /\ bmp = Bitmap(4, len \div 4, 0, 0, px)
             /\ hist = [NoHist EXCEPT !.pixels = <<px>>]

\* a shadow byte that was never written holds junk
Settled(px, junk) == [q \in DOMAIN px |-> IF px[q] = Indeterminate THEN junk ELSE px[q]]

(* distributeimage, bmpsss.c 667-668: hideshadow(bmp, shadows[i]) on the carrier
   that was just read.  A carrier shorter than 8 bytes per shadow byte is
   written beyond its allocation: the process faults, or it goes on with the
   part of the carrier it owns. *)
HideShadow ==
    /\ pc = "hideshadow"
    /\ LET shadow  == shadows[cur + 1]
           unknown == \E q \in DOMAIN shadow.imgpixels : shadow.imgpixels[q] = Indeterminate
       IN  \E o \in AccessOutcomes(HideOverflows(bmp, shadow) \/ unknown) :
             IF o = Fault
             THEN pc' = "crashed" /\ UNCHANGED <<bmp, cwd, cur>>
             ELSE /\ bmp' = hideshadow(bmp, [shadow EXCEPT !.imgpixels = Settled(@, o)])
                  /\ cwd' = WriteShadowFile(cwd, bmp')
                  /\ cur' = cur + 1
                  /\ pc' = "hideloop"
    /\ UNCHANGED <<paramVars, rseed, hist, shareVars, dir, filepaths, out>>

NextHide == HideShadow

SpecHide == InitHide /\ [][NextHide]_vars

Bit(b, t) == (b \div (2 ^ t)) % 2

\* C2: after hideshadow(C, S) every carrier byte keeps its high 7 bits, and
\* the least significant bit of byte 8*i+j is bit 7-j of S.pixels[i].
LsbFidelity ==
    pc = "hideloop" =>
        LET C  == hist.pixels[1]
            C2 == bmp.imgpixels
            S  == shadows[1].imgpixels
        IN  /\ DOMAIN C2 = DOMAIN C
            /\ \A q \in DOMAIN C : C2[q] \div 2 = C[q] \div 2
            /\ \A i \in DOMAIN S : \A j \in 0..7 :
                   C2[8 * i + j] % 2 = Bit(S[i], 7 - j)

\* a shadow byte with both bit values was hidden and some carrier byte changed
LsbFidelityWitness ==
    /\ pc = "hideloop"
    /\ 165 \in {shadows[1].imgpixels[i] : i \in DOMAIN shadows[1].imgpixels}
    /\ bmp.imgpixels # hist.pixels[1]
    /\ ArrLen(bmp.imgpixels) > 8 * ArrLen(shadows[1].imgpixels)

----------------------------------------------------------------------------
(* Carrier selection: isvalidbmpsize .. getvalidfilenames, bmpsss.c 361-375, 585-654 *)

BITS_PER_PIXEL == 8

\* ((BITS_PER_PIXEL * width + 31)/32) * 4 * height
calculatepixelarraysize(w, h) == ((BITS_PER_PIXEL * w + 31) \div 32) * 4 * h

\* A directory entry: d_type and, for a regular file, what the program reads of
\* it: the magic number, the header's width, height and reserved slots, and the
\* pixel array.
Entry(type, magic, w, h, sd, shadnum, px) ==
    [d_type |-> type, isbmp |-> magic,
     width |-> w, height |-> h, unused1 |-> sd, unused2 |-> shadnum, imgpixels |-> px]

\* bmpfromfile(filename)
bmpfromfile(e) == Bitmap(e.width, e.height, e.unused1, e.unused2, e.imgpixels)

bmpfilewidth(e)  == e.width
bmpfileheight(e) == e.height

isvalidbmpsize(e, kk, secretsize) ==
    LET shadowsize == (secretsize * 8) \div kk
        imgsize    == bmpfilewidth(e) * bmpfileheight(e)
    IN  imgsize >= shadowsize

kdivisiblesize(e, kk) ==
    LET px  == bmpfilewidth(e) * bmpfileheight(e)
        aux == px \div kk
    IN  px = aux * kk

isbmp(e) == e.isbmp

isvalidshadow(e, kk, secretsize) ==
    e.unused2 # 0 /\ isbmp(e) /\ isvalidbmpsize(e, kk, secretsize)

\* the last parameter is ignored
isvalidbmp(e, kk, ignoredparameter) == isbmp(e) /\ kdivisiblesize(e, kk)

\* a call through the function pointer fn isvalid
CallFn(isvalid, e, kk, size) ==
    IF isvalid = "isvalidbmp" THEN isvalidbmp(e, kk, size)
    ELSE isvalidshadow(e, kk, size)

\* a mutant that does not look at d_type
ReadDirStepAnyType(d, pos, acc, kk, nn, isvalid, size) ==
    IF Len(acc) >= nn THEN acc
    ELSE IF CallFn(isvalid, d[pos], kk, size)
         THEN Append(acc, pos)
         ELSE acc

\* one turn of the readdir loop on entry pos; acc holds the positions selected
\* so far (once i reaches n the loop is left, and later entries change nothing)
ReadDirStep(d, pos, acc, kk, nn, isvalid, size) ==
    IF Len(acc) >= nn THEN acc
    ELSE IF d[pos].d_type = "DT_REG" /\ CallFn(isvalid, d[pos], kk, size)
         THEN Append(acc, pos)
         ELSE acc

\* the readdir loop over the entries lo..hi in enumeration order (split in
\* halves, with an always-true test in between, only to keep the evaluation
\* shallow)
RECURSIVE ReadDirLoop(_, _, _, _, _, _, _, _)
ReadDirLoop(d, lo, hi, acc, kk, nn, isvalid, size) ==
    IF lo > hi THEN acc
    ELSE IF lo = hi THEN ReadDirStep(d, lo, acc, kk, nn, isvalid, size)
    ELSE LET mid   == (lo + hi) \div 2
             first == ReadDirLoop(d, lo, mid, acc, kk, nn, isvalid, size)
         IN  IF Len(first) >= 0
             THEN ReadDirLoop(d, mid + 1, hi, first, kk, nn, isvalid, size)
             ELSE acc

\* getvalidfilenames(dir, k, n, isvalid, size): die() or the selected names
getvalidfilenames(d, kk, nn, isvalid, size) ==
    LET acc == ReadDirLoop(d, 1, Len(d), <<>>, kk, nn, isvalid, size)
    IN  [died |-> Len(acc) < nn, filenames |-> acc]

getbmpfilenames(d, kk, nn, size) == getvalidfilenames(d, kk, nn, "isvalidbmp", size)

getshadowfilenames(d, kk, size) == getvalidfilenames(d, kk, kk, "isvalidshadow", size)

(* Bounds and inputs of the selection model *)

MaxDir == 3              \* entries in the directory
MaxCount == 3            \* largest requested count

\* a symbolic link to a carrier, a non-BMP file, carriers of 1x2, 2x3, 4x4 and 3x4 pixels, two
\* of them carrying a shadow number
EntrySamples ==
    { Entry("DT_LNK", TRUE, 2, 3, 0, 1, <<>>),
      Entry("DT_REG", FALSE, 4, 6, 0, 0, <<>>),
      Entry("DT_REG", TRUE, 1, 2, 0, 0, <<>>),
      Entry("DT_REG", TRUE, 2, 3, 0, 1, <<>>),
      Entry("DT_REG", TRUE, 4, 4, 691, 2, <<>>),
      Entry("DT_REG", TRUE, 3, 4, 691, 0, <<>>) }

RECURSIVE SeqsUpTo(_, _)
SeqsUpTo(S, len) ==
    IF len = 0 THEN {<<>>}
    ELSE LET shorter == SeqsUpTo(S, len - 1)
         IN  shorter \cup {Append(q, e) : q \in shorter, e \in S}

(* Specification of the selection: one call of getbmpfilenames or of
   getshadowfilenames on a directory. *)
InitSelect ==
    /\ pc = "select"
    /\ k \in 2..3
    /\ n \in 1..MaxCount
    /\ seed = 0 /\ width \in {1, 2} /\ height = 3
    /\ bmp = NoBmp /\ rseed = ZeroState /\ hist = NoHist
    /\ IdleShare
    /\ dir \in SeqsUpTo(EntrySamples, MaxDir)
    /\ filepaths = <<>> /\ cur = 0 /\ cwd = NoFiles /\ out = NoBmp

SelectBmps ==
    /\ pc = "select"
    /\ LET r == getbmpfilenames(dir, k, n, width * height)
       IN  IF r.died
           THEN pc' = "died" /\ UNCHANGED filepaths
           ELSE pc' = "selected_bmps" /\ filepaths' = r.filenames
    /\ UNCHANGED <<paramVars, bmp, rseed, hist, shareVars, dir, cur, cwd, out>>

SelectShadows ==
    /\ pc = "select"
    /\ LET r == getshadowfilenames(dir, k, width * height)
       IN  IF r.died
           THEN pc' = "died_r" /\ UNCHANGED filepaths
           ELSE pc' = "selected_shadows" /\ filepaths' = r.filenames
    /\ UNCHANGED <<paramVars, bmp, rseed, hist, shareVars, dir, cur, cwd, out>>

NextSelect == SelectBmps \/ SelectShadows

SpecSelect == InitSelect /\ [][NextSelect]_vars

\* the positions of the regular files of dir that satisfy each predicate
ValidBmpPositions ==
    {p \in 1..Len(dir) : dir[p].d_type = "DT_REG" /\ isvalidbmp(dir[p], k, width * height)}

ValidShadowPositions ==
    {p \in 1..Len(dir) : dir[p].d_type = "DT_REG" /\ isvalidshadow(dir[p], k, width * height)}

\* names is increasing and holds exactly the m smallest elements of P
IsFirstOf(names, m, P) ==
    /\ Len(names) = m
    /\ \A a \in 1..m : names[a] \in P
    /\ \A a \in 1..m - 1 : names[a] < names[a + 1]
    /\ \A p \in P : (\E a \in 1..m : names[a] = p) \/ (m > 0 /\ p > names[m])

\* C7: getvalidfilenames returns the first m valid regular files in enumeration
\* order, or dies; it dies exactly when fewer than m regular files are valid.
CarrierSelection ==
    LET B == ValidBmpPositions
        S == ValidShadowPositions
    IN  /\ pc = "selected_bmps" => Cardinality(B) >= n /\ IsFirstOf(filepaths, n, B)
        /\ pc = "died" => Cardinality(B) < n
        /\ pc = "selected_shadows" => Cardinality(S) >= k /\ IsFirstOf(filepaths, k, S)
        /\ pc = "died_r" => Cardinality(S) < k

\* a selection that skipped a link to a valid carrier and an invalid file
CarrierSelectionWitness ==
    /\ pc = "selected_bmps"
    /\ n = 1
    /\ \E p \in 1..Len(dir) : dir[p].d_type = "DT_LNK" /\ p < filepaths[1]
    /\ \E p \in 1..Len(dir) : dir[p].d_type = "DT_REG" /\ p < filepaths[1]

----------------------------------------------------------------------------
(* Sharing engine: findclosestpair, newshadow, formshadows, decreasecoeff,
   bmpsss.c 398-474 *)

PRIME == 257

\* floor(sqrt(x)), exact for a uint32_t x
ISqrt(x) == CHOOSE y \in 0..x : y * y <= x /\ (y + 1) * (y + 1) > x

SetMax(S) == CHOOSE m \in S : \A o \in S : o <= m

\* findclosestpair(x, &width, &height): w0 and h0 are what *width and *height
\* hold on entry; they are left alone when no y > 2 divides x.
findclosestpair(x, w0, h0) ==
    LET ys == {y \in 3..ISqrt(x) : x % y = 0}
    IN  IF ys = {} THEN <<w0, h0>>
        ELSE <<SetMax(ys), x \div SetMax(ys)>>

\* newshadow(width, height, seed, shadownumber): malloc'ed pixels, not zeroed
newshadow(w, h, sd, shadownumber) ==
    Bitmap(w, h, sd, shadownumber % 65536, [q \in 0..w * h - 1 |-> Indeterminate])

(* The arithmetic of "value += coeff[r] * pow(i+1, r)": value is a uint64_t,
   pow returns a double, so every turn converts value to double, multiplies and
   adds in double and converts the sum back.  A double keeps 53 significant
   bits and rounds to nearest, ties to even.  Wide values are five limbs of 15
   bits, least significant first. *)
DBASE == 32768
MANTISSA == 53

Wide(v) == <<v % DBASE, v \div DBASE, 0, 0, 0>>

Carry(v) ==
    LET c1 == v[1] \div DBASE
        c2 == (v[2] + c1) \div DBASE
        c3 == (v[3] + c2) \div DBASE
        c4 == (v[4] + c3) \div DBASE
    IN  <<v[1] % DBASE, (v[2] + c1) % DBASE, (v[3] + c2) % DBASE,
          (v[4] + c3) % DBASE, v[5] + c4>>

WideAdd(a, b) == Carry([i \in 1..5 |-> a[i] + b[i]])

\* a * s for 0 <= s < DBASE
WideMul(a, s) == Carry([i \in 1..5 |-> a[i] * s])

RECURSIVE Bits(_)
Bits(v) == IF v = 0 THEN 0 ELSE 1 + Bits(v \div 2)

\* the number of significant bits of a
WideBits(a) ==
    LET used == {i \in 1..5 : a[i] # 0}
    IN  IF used = {} THEN 0
        ELSE LET h == CHOOSE i \in used : \A o \in used : o <= i
             IN  15 * (h - 1) + Bits(a[h])

\* a modulo m, for m < 65536
WideMod(a, m) ==
    LET r5 == a[5] % m
        r4 == (r5 * DBASE + a[4]) % m
        r3 == (r4 * DBASE + a[3]) % m
        r2 == (r3 * DBASE + a[2]) % m
    IN  (r2 * DBASE + a[1]) % m

\* the double nearest to a (ties to even); at most 22 bits are dropped
RoundToDouble(a) ==
    LET d == WideBits(a) - MANTISSA
    IN  IF d <= 0 THEN a
        ELSE LET low  == a[1] + a[2] * DBASE
                 rem  == low % (2 ^ d)
                 odd  == (low \div (2 ^ d)) % 2
                 up   == rem > 2 ^ (d - 1) \/ (rem = 2 ^ (d - 1) /\ odd = 1)
                 kept == low - rem
                 cut  == <<kept % DBASE, kept \div DBASE, a[3], a[4], a[5]>>
             IN  IF up THEN WideAdd(cut, Wide(2 ^ d)) ELSE cut

\* x ^ e, exactly
RECURSIVE WidePower(_, _)
WidePower(x, e) == IF e = 0 THEN Wide(1) ELSE WideMul(WidePower(x, e - 1), x)

\* pow(x, e) of math.h, correctly rounded
pow(x, e) == RoundToDouble(WidePower(x, e))

\* coeff[r]: px[q], or junk when q lies outside the pixel array
ReadPixel(px, q, junk) == IF q \in DOMAIN px THEN px[q] ELSE junk

\* one turn of the inner loop: value += coeff[r] * pow(i+1, r), with x = i+1
PolyStep(value, c, x, r) ==
    RoundToDouble(WideAdd(RoundToDouble(value), RoundToDouble(WideMul(pow(x, r), c))))

\* the inner loop from turn r on; coeff is px from index base.  (The test of
\* the new value is always true: it makes the value be computed before the
\* next turn starts.)
RECURSIVE PolyValue(_, _, _, _, _, _, _)
PolyValue(px, base, kk, x, r, value, junk) ==
    IF r >= kk THEN value
    ELSE LET next == PolyStep(value, ReadPixel(px, base + r, junk), x, r)
         IN  IF next[1] >= 0
             THEN PolyValue(px, base, kk, x, r + 1, next, junk)
             ELSE value

\* the first for loop under step4: pixels[i] = value % PRIME, i = 0..n-1
EvaluateGroup(px, base, kk, nn, junk) ==
    [i \in 0..nn - 1 |-> WideMod(PolyValue(px, base, kk, i + 1, 0, Wide(0), junk), PRIME)]

\* decreasecoeff: while (coeff[i] == 0) i++;
RECURSIVE FirstNonZero(_, _)
FirstNonZero(px, q) ==
    IF q \notin DOMAIN px THEN q
    ELSE IF px[q] = 0 THEN FirstNonZero(px, q + 1)
    ELSE q

\* a repair that lowers coeff[k-1] whatever it holds
decreasecoeffLast(px, base) ==
    [px EXCEPT ![base + k - 1] = (px[base + k - 1] - 1) % 256]

\* a repair that lowers coeff[0] whatever it holds
decreasecoeffFirst(px, base) ==
    [px EXCEPT ![base] = (px[base] - 1) % 256]

\* decreasecoeff(coeff) with coeff = &imgpixels[base]: coeff[i]--
decreasecoeff(px, base) ==
    LET q == FirstNonZero(px, base)
    IN  IF q \in DOMAIN px THEN [px EXCEPT ![q] = (px[q] - 1) % 256] ELSE px

\* the second for loop: some pixels[i] == 256
NeedsRepair(pxs) == \E i \in DOMAIN pxs : pxs[i] = 256

\* the third for loop: shadows[i]->imgpixels[j] = pixels[i], as uint8_t
StoreGroup(shs, g, pxs) ==
    [i \in 1..Len(shs) |->
        [shs[i] EXCEPT !.imgpixels =
            IF g \in DOMAIN @ THEN [@ EXCEPT ![g] = pxs[i - 1] % 256] ELSE @]]

\* shadows[i]->imgpixels[j] lies outside the array of some shadow
StoreOutside(shs, g) == \E i \in 1..Len(shs) : g \notin DOMAIN shs[i].imgpixels

\* what an uninitialised uint32_t width and int32_t height may hold
GarbageDims == {<<0, 0>>, <<1, 2>>, <<5, 4>>}

(* main, bmpsss.c 823-839, after the arguments were parsed into uint16_t k, n *)
Main ==
    /\ pc \in {"main -d", "main -r"}
    /\ pc' = IF width = 0 \/ height = 0 THEN "died"
             ELSE IF k > n \/ k < 2 \/ n < 2 THEN "died"
             ELSE IF pc = "main -d" THEN "distributeimage"
             ELSE "recoverimage"
    /\ UNCHANGED <<paramVars, bmp, rseed, hist, shareVars, fileVars>>

(* distributeimage, bmpsss.c 660-661: bmp is the secret read by bmpfromfile *)
GetBmpFilenames ==
    /\ pc = "distributeimage"
    /\ LET r == getbmpfilenames(dir, k, n, bmpimagesize(bmp))
       IN  IF r.died
           THEN pc' = "died" /\ UNCHANGED filepaths
           ELSE pc' = "xor" /\ filepaths' = r.filenames
    /\ UNCHANGED <<paramVars, bmp, rseed, hist, shareVars, dir, cur, cwd, out>>

(* distributeimage, bmpsss.c 662 *)
XorSecret ==
    /\ pc = "xor"
    /\ LET r == xorbmpwithrandomtable(rseed, bmp.imgpixels, seed)
       IN  /\ bmp' = [bmp EXCEPT !.imgpixels = r.pixels]
           /\ rseed' = r.rseed
    /\ pc' = "formshadows"
    /\ UNCHANGED <<paramVars, hist, shareVars, fileVars>>

(* formshadows, bmpsss.c 419-432: dimensions, allocation, loop entry.  width
   and height are not initialised: when findclosestpair finds no divisor they
   hold whatever the stack held. *)
FormShadows ==
    /\ pc = "formshadows"
    /\ \E g \in GarbageDims :
         LET pixelarraysize == bmpimagesize(bmp)
             wh == findclosestpair(pixelarraysize \div k, g[1], g[2])
         IN  /\ shadows' = [i \in 1..n |-> newshadow(wh[1], wh[2], seed, i)]
             /\ pixels' = [i \in 0..n - 1 |-> Indeterminate]
             /\ grp' = 0
             /\ pc' = IF 0 * k < pixelarraysize THEN "step4" ELSE "returned"
    /\ UNCHANGED <<paramVars, bmp, rseed, hist, mat, fileVars>>

\* the group coeff[0..k-1] lies inside the pixel array
GroupInside == grp * k + k <= bmpimagesize(bmp)

(* formshadows, bmpsss.c 436-447: evaluate the section polynomial at 1..n; a
   group that ends beyond the pixel array is read outside the allocation *)
Evaluate ==
    /\ pc = "step4"
    /\ \E o \in AccessOutcomes(~GroupInside) :
         IF o = Fault
         THEN pc' = "crashed" /\ UNCHANGED pixels
         ELSE /\ pixels' = EvaluateGroup(bmp.imgpixels, grp * k, k, n, o)
              /\ pc' = "check"
    /\ UNCHANGED <<paramVars, bmp, rseed, hist, shadows, grp, mat, fileVars>>

(* formshadows, bmpsss.c 449-454: decreasecoeff(coeff); goto step4 *)
Repair ==
    /\ pc = "check"
    /\ NeedsRepair(pixels)
    /\ bmp' = [bmp EXCEPT !.imgpixels = decreasecoeff(@, grp * k)]
    /\ hist' = [hist EXCEPT !.others = @ + 1]
    /\ pc' = "step4"
    /\ UNCHANGED <<paramVars, rseed, shareVars, fileVars>>

(* formshadows, bmpsss.c 456-458 and the loop header 432; a shadow that has no
   pixel j is written outside its allocation *)
Store ==
    /\ pc = "check"
    /\ ~NeedsRepair(pixels)
    /\ \E o \in AccessOutcomes(StoreOutside(shadows, grp)) :
         IF o = Fault
         THEN pc' = "crashed" /\ UNCHANGED <<shadows, grp>>
         ELSE /\ shadows' = StoreGroup(shadows, grp, pixels)
              /\ grp' = grp + 1
              /\ pc' = IF (grp + 1) * k < bmpimagesize(bmp) THEN "step4" ELSE "returned"
    /\ UNCHANGED <<paramVars, bmp, rseed, hist, pixels, mat, fileVars>>

(* distributeimage, bmpsss.c 663-669: freebitmap(bmp) and the head of the loop
   over the carriers, bmp = bmpfromfile(filepaths[i]) *)
LoadCarrier ==
    /\ pc \in {"returned", "hideloop"}
    /\ IF cur < n
       THEN bmp' = bmpfromfile(dir[filepaths[cur + 1]]) /\ pc' = "hideshadow"
       ELSE bmp' = NoBmp /\ pc' = "distributed"
    /\ UNCHANGED <<paramVars, rseed, hist, shareVars, dir, filepaths, cur, cwd, out>>

(* Bounds and inputs of the sharing model *)

MaxK == 3                \* largest threshold
MaxN == 3                \* largest number of shadows, apart from BigN
BigN == 256              \* a number of shadows beyond 255, shared with k = 2
BigK == 14               \* a threshold whose powers need more than 53 bits
MaxRamp == 1             \* largest per-group increment of the coefficient pattern

CoeffSamples == {0, 1, 128, 255}
ShadowSizes == {9, 12}   \* pixels per shadow: 3x3 and 3x4

\* a whitened pixel array of len bytes: group g holds tile + g * ramp
WhitenedPixels(len, kk, tile, ramp) ==
    [q \in 0..len - 1 |-> (tile[q % kk] + (q \div kk) * ramp) % 256]

\* a secret whose whitened form is wpx
SecretFor(wpx, sd) == xorbmpwithrandomtable(ZeroState, wpx, sd).pixels

\* a directory of cnt carriers of w x h pixels
CarrierDir(cnt, w, h, base, step) ==
    [p \in 1..cnt |->
        Entry("DT_REG", TRUE, w, h, 0, 0,
              CarrierPixels(calculatepixelarraysize(w, h), (base + p) % 256, step))]

(* Specification of the sharing engine: main validates k and n, the carriers
   are selected, the secret is whitened and formshadows runs to its return. *)
InitShare ==
    /\ pc = "main -d"
    /\ k \in 1..MaxK \cup {BigK}
    /\ n \in 1..MaxN \cup {BigK, BigN}
    /\ n = BigN => k = 2
    /\ (k = BigK) = (n = BigK)
    /\ seed \in {0, 691}
    /\ rseed = ZeroState
    /\ IdleShare
    /\ \E p \in ShadowSizes, ramp \in 0..MaxRamp :
         \E tile \in [0..k - 1 -> IF n = BigN THEN {0, 1}
                                  ELSE IF n = BigK THEN {255}
                                  ELSE CoeffSamples] :
            LET px == SecretFor(WhitenedPixels(k * p, k, tile, ramp), seed)
            IN  /\ bmp = Bitmap(k * p, 1, 0, 0, px)
                /\ hist = [NoHist EXCEPT !.pixels = <<px>>]
                /\ width = k * p /\ height = 1
    /\ dir = CarrierDir(n, k, 1, 0, 1)
    /\ filepaths = <<>> /\ cur = 0 /\ cwd = NoFiles /\ out = NoBmp

NextShare ==
    \/ Main
    \/ GetBmpFilenames
    \/ XorSecret
    \/ FormShadows
    \/ Evaluate
    \/ Repair
    \/ Store

SpecShare == InitShare /\ [][NextShare]_vars

\* Horner's rule for a0 + a1*x + ... + a_{k-1}*x^(k-1) modulo 257, with the
\* coefficients of group g of px
RECURSIVE Horner(_, _, _, _)
Horner(px, g, x, r) ==
    IF r >= k THEN 0
    ELSE (px[g * k + r] + x * Horner(px, g, x, r + 1)) % PRIME

\* C10 as claimed: when formshadows returns, pixel j of shadow i is f_j(i) mod
\* 257 on the final coefficients of group j, and that value is at most 255.
ShadowPixelValidity ==
    pc = "returned" =>
        \A i \in 1..n : \A g \in 0..(bmpimagesize(bmp) \div k) - 1 :
            /\ shadows[i].imgpixels[g] = Horner(bmp.imgpixels, g, i, 0)
            /\ shadows[i].imgpixels[g] \in 0..255

\* C4 as claimed: every shadow of a run carries an index in 1..255, and the
\* indices are pairwise distinct.
ShadowIndexInvariant ==
    pc = "returned" =>
        /\ \A i \in 1..n : shadows[i].unused2 \in 1..255
        /\ \A a, b \in 1..n : a # b => shadows[a].unused2 # shadows[b].unused2

----------------------------------------------------------------------------
(* The int arithmetic of revealsecret and findcoefficients.  An int has 32
   bits; a signed operation whose result does not fit is undefined.  Every
   operation returns its value and whether it overflowed; the value of an
   overflowing operation is the one two's complement wrap-around gives. *)

INT_MAX == 2147483647
INT_MIN == -INT_MAX - 1

MulOverflows(a, b) ==
    IF a = 0 \/ b = 0 THEN FALSE
    ELSE IF a > 0 /\ b > 0 THEN a > INT_MAX \div b
    ELSE IF a > 0 THEN b < (INT_MIN + a - 1) \div a
    ELSE IF b > 0 THEN a < (INT_MIN + b - 1) \div b
    ELSE IF a = INT_MIN \/ b = INT_MIN THEN TRUE
    ELSE (-a) > INT_MAX \div (-b)

\* x * y for 16-bit x and y, as two 16-bit halves
Mul16(x, y) ==
    LET t0 == (x % 256) * y
        t1 == (x \div 256) * y
        sm == t0 + (t1 % 256) * 256
    IN  [lo |-> sm % 65536, hi |-> ((sm \div 65536) + (t1 \div 256)) % 65536]

\* the low 32 bits of a * b, read as a signed int
WrapMul(a, b) ==
    LET al == a % 65536
        ah == (a \div 65536) % 65536
        bl == b % 65536
        bh == (b \div 65536) % 65536
        pl == Mul16(al, bl)
        hi == (pl.hi + Mul16(ah, bl).lo + Mul16(al, bh).lo) % 65536
    IN  (IF hi >= 32768 THEN hi - 65536 ELSE hi) * 65536 + pl.lo

IntMul(a, b) ==
    IF MulOverflows(a, b) THEN [value |-> WrapMul(a, b), ub |-> TRUE]
    ELSE [value |-> a * b, ub |-> FALSE]

\* a - b for 0 <= |b| <= PRIME
IntSub(a, b) ==
    IF b > 0 /\ a < INT_MIN + b
    THEN [value |-> (a - INT_MIN) + (INT_MAX - b) + 1, ub |-> TRUE]
    ELSE IF b < 0 /\ a > INT_MAX + b
    THEN [value |-> (a - INT_MAX) + (INT_MIN - b) - 1, ub |-> TRUE]
    ELSE [value |-> a - b, ub |-> FALSE]

\* a % m of C for m > 0: the remainder has the sign of a
CRem(a, m) == IF a % m = 0 \/ a >= 0 THEN a % m ELSE (a % m) - m

\* mod(a, b) of util.h: the non-negative remainder
mod(a, b) == a % b

\* static const int modinv[PRIME]; modinv[v] of C is modinv[v + 1] here
modinv ==
    <<
      0, 1, 129, 86, 193, 103, 43, 147, 225, 200, 180, 187, 150, 178, 202, 120,
      241, 121, 100, 230, 90, 49, 222, 190, 75, 72, 89, 238, 101, 195, 60, 199,
      249, 148, 189, 235, 50, 132, 115, 145, 45, 163, 153, 6, 111, 40, 95, 175,
      166, 21, 36, 126, 173, 97, 119, 243, 179, 248, 226, 61, 30, 59, 228, 102,
      253, 87, 74, 234, 223, 149, 246, 181, 25, 169, 66, 24, 186, 247, 201, 244,
      151, 165, 210, 96, 205, 127, 3, 65, 184, 26, 20, 209, 176, 152, 216, 46,
      83, 53, 139, 135, 18, 28, 63, 5, 215, 164, 177, 245, 188, 224, 250, 44,
      218, 116, 124, 38, 113, 134, 159, 54, 15, 17, 158, 140, 114, 220, 51, 85,
      255, 2, 172, 206, 37, 143, 117, 99, 240, 242, 203, 98, 123, 144, 219, 133,
      141, 39, 213, 7, 33, 69, 12, 80, 93, 42, 252, 194, 229, 239, 122, 118,
      204, 174, 211, 41, 105, 81, 48, 237, 231, 73, 192, 254, 130, 52, 161, 47,
      92, 106, 13, 56, 10, 71, 233, 191, 88, 232, 76, 11, 108, 34, 23, 183,
      170, 4, 155, 29, 198, 227, 196, 31, 9, 78, 14, 138, 160, 84, 131, 221,
      236, 91, 82, 162, 217, 146, 251, 104, 94, 212, 112, 142, 125, 207, 22, 68,
      109, 8, 58, 197, 62, 156, 19, 168, 185, 182, 67, 35, 208, 167, 27, 157,
      136, 16, 137, 55, 79, 107, 70, 77, 57, 32, 110, 214, 154, 64, 171, 128,
      256 >>

\* modinv[v]; an index outside the table is a read outside the array
InvAt(v) ==
    IF v \in 0..PRIME - 1 THEN [value |-> modinv[v + 1], ub |-> FALSE]
    ELSE [value |-> 0, ub |-> TRUE]

----------------------------------------------------------------------------
(* Recovery: findcoefficients, revealsecret, retrieveshadow, recoverimage,
   bmpsss.c 476-536, 562-583, 680-701.  A matrix is a function from the rows
   0..k-1 to functions on the columns 0..k; a matrix state ms pairs the matrix
   with whether an operation on the way was undefined. *)

\* lines 483-487: row i minus a times row i-1, from column j on
EliminateRow(ms, i, j, kk) ==
    LET m    == ms.mat
        inv  == InvAt(m[i - 1][j])
        a    == IntMul(m[i][j], inv.value)
        prod == [t \in j..kk |-> IntMul(m[i - 1][t], a.value)]
        temp == [t \in j..kk |-> IntSub(m[i][t], CRem(prod[t].value, PRIME))]
    IN  [mat |-> [m EXCEPT ![i] = [t \in 0..kk |->
                     IF t >= j THEN mod(temp[t].value, PRIME) ELSE m[i][t]]],
         ub  |-> \/ ms.ub \/ inv.ub \/ a.ub
                 \/ \E t \in j..kk : prod[t].ub \/ temp[t].ub]

\* lines 481-489: for j = 0..k-2, for i = k-1 down to j+1.  (The test of the
\* new matrix is always true: it makes the matrix be computed before the next
\* turn starts.)
RECURSIVE Echelon(_, _, _, _)
Echelon(ms, j, i, kk) ==
    IF j >= kk - 1 THEN ms
    ELSE IF i <= j THEN Echelon(ms, j + 1, kk - 1, kk)
    ELSE LET next == EliminateRow(ms, i, j, kk)
         IN  IF next = next THEN Echelon(next, j, i - 1, kk) ELSE ms

\* lines 493-499: scale row i and clear column i of the rows above it
ReduceRow(ms, i, kk) ==
    LET m    == ms.mat
        inv  == InvAt(m[i][i])
        rhs  == IntMul(m[i][kk], inv.value)
        dia  == IntMul(m[i][i], inv.value)
        mik  == CRem(rhs.value, PRIME)
        prod == [t \in 0..i - 1 |-> IntMul(mik, m[t][i])]
        temp == [t \in 0..i - 1 |-> IntSub(m[t][kk], CRem(prod[t].value, PRIME))]
    IN  [mat |-> [r \in 0..kk - 1 |->
                     IF r = i THEN [m[r] EXCEPT ![kk] = mik,
                                                ![i]  = CRem(dia.value, PRIME)]
                     ELSE IF r < i THEN [m[r] EXCEPT ![kk] = mod(temp[r].value, PRIME),
                                                     ![i]  = 0]
                     ELSE m[r]],
         ub  |-> \/ ms.ub \/ inv.ub \/ rhs.ub \/ dia.ub
                 \/ \E t \in 0..i - 1 : prod[t].ub \/ temp[t].ub]

\* lines 492-500: for i = k-1 down to 1
RECURSIVE Reduce(_, _, _)
Reduce(ms, i, kk) ==
    IF i <= 0 THEN ms
    ELSE LET next == ReduceRow(ms, i, kk)
         IN  IF next = next THEN Reduce(next, i - 1, kk) ELSE ms

\* findcoefficients(mat, k)
findcoefficients(m, kk) ==
    Reduce(Echelon([mat |-> m, ub |-> FALSE], 0, kk - 1, kk), kk - 1, kk)

\* revealsecret 516-521: mat[j][t] = value; value *= unused2, for t = 1..k-1,
\* starting from value = unused2.  row holds mat[j][1..t-1].
RECURSIVE PowerRow(_, _, _, _, _)
PowerRow(row, value, x, t, kk) ==
    IF t >= kk THEN [row |-> row, ub |-> FALSE]
    ELSE LET next == IntMul(value, x)
             rest == PowerRow(Append(row, value), next.value, x, t + 1, kk)
         IN  [row |-> rest.row, ub |-> next.ub \/ rest.ub]

\* revealsecret 513-523: the k rows for pixel i of the shadows
BuildRows(shs, i, kk) ==
    LET pw == [j \in 0..kk - 1 |-> PowerRow(<<>>, shs[j + 1].unused2, shs[j + 1].unused2, 1, kk)]
    IN  [mat |-> [j \in 0..kk - 1 |-> [t \in 0..kk |->
                     IF t = 0 THEN 1
                     ELSE IF t = kk THEN shs[j + 1].imgpixels[i]
                     ELSE pw[j].row[t]]],
         ub  |-> \E j \in 0..kk - 1 : pw[j].ub]

\* newbitmap(width, height, seed): malloc'ed pixels, not zeroed
newbitmap(w, h, sd) ==
    Bitmap(w, h, sd, 0, [q \in 0..calculatepixelarraysize(w, h) - 1 |-> Indeterminate])

\* retrieveshadow 573-578: the inner loop, mask is shifted right each turn
RECURSIVE RetrieveBits(_, _, _, _, _, _)
RetrieveBits(px, j, last, mask, byte, junk) ==
    IF j >= last THEN byte
    ELSE RetrieveBits(px, j + 1, last, mask \div 2,
                      IF ReadPixel(px, j, junk) % 2 = 1 THEN byte + mask ELSE byte, junk)

\* the dimensions retrieveshadow gives the shadow: the secret's own when
\* findclosestpair finds no divisor
ShadowDims(w, h, kk) == findclosestpair(calculatepixelarraysize(w, h) \div kk, w, h)

RetrieveOverflows(bp, w, h, kk) ==
    8 * ShadowDims(w, h, kk)[1] * ShadowDims(w, h, kk)[2] > bmpimagesize(bp)

\* retrieveshadow(bp, width, height, k); junk is what a read outside bp yields
retrieveshadow(bp, w, h, kk, junk) ==
    LET wh == ShadowDims(w, h, kk)
        shadow == newshadow(wh[1], wh[2], bp.unused1, bp.unused2)
    IN  [shadow EXCEPT !.imgpixels =
            [i \in DOMAIN @ |-> RetrieveBits(bp.imgpixels, i * 8, 8 * (i + 1), 128, 0, junk)]]

(* recoverimage is run on a directory that holds k of the files distributeimage
   wrote, in some order; a file may be there twice, under two names.  -n is not
   given, so main sets n = countfiles(dir). *)
FileEntry(bp) ==
    Entry("DT_REG", TRUE, bp.width, bp.height, bp.unused1, bp.unused2, bp.imgpixels)

countfiles(d) == Cardinality({p \in 1..Len(d) : d[p].d_type = "DT_REG"})

ChooseShadows ==
    /\ pc = "distributed"
    /\ \E pick \in [1..k -> DOMAIN cwd] :
         /\ dir' = [p \in 1..k |-> FileEntry(cwd[pick[p]])]
         /\ n' = countfiles(dir')
    /\ pc' = "main -r"
    /\ filepaths' = <<>> /\ cur' = 0
    /\ shadows' = <<>> /\ grp' = 0 /\ pixels' = <<>>
    /\ UNCHANGED <<k, seed, width, height, bmp, rseed, hist, mat, cwd, out>>

(* recoverimage, bmpsss.c 682-684 *)
GetShadowFilenames ==
    /\ pc = "recoverimage"
    /\ LET r == getshadowfilenames(dir, k, width * height)
       IN  IF r.died
           THEN pc' = "died" /\ UNCHANGED filepaths
           ELSE pc' = "retrieveshadow" /\ filepaths' = r.filenames
    /\ UNCHANGED <<paramVars, bmp, rseed, hist, shareVars, dir, cur, cwd, out>>

(* recoverimage, bmpsss.c 685-689: one turn of the loop; a carrier shorter than
   8 bytes per shadow byte is read outside its allocation *)
RetrieveShadow ==
    /\ pc = "retrieveshadow"
    /\ LET bp == bmpfromfile(dir[filepaths[cur + 1]])
       IN  \E o \in AccessOutcomes(RetrieveOverflows(bp, width, height, k)) :
             IF o = Fault
             THEN pc' = "crashed" /\ UNCHANGED <<shadows, cur>>
             ELSE /\ shadows' = Append(shadows, retrieveshadow(bp, width, height, k, o))
                  /\ cur' = cur + 1
                  /\ pc' = IF cur + 1 < k THEN "retrieveshadow" ELSE "revealsecret"
    /\ UNCHANGED <<paramVars, bmp, rseed, hist, grp, pixels, mat, dir, filepaths, cwd, out>>

(* revealsecret, bmpsss.c 505-512: allocations and loop entry *)
RevealSecret ==
    /\ pc = "revealsecret"
    /\ bmp' = newbitmap(width, height, shadows[1].unused1)
    /\ mat' = [j \in 0..k - 1 |-> [t \in 0..k |-> Indeterminate]]
    /\ grp' = 0
    /\ pc' = IF 0 < bmpimagesize(shadows[1]) THEN "build" ELSE "unmask"
    /\ UNCHANGED <<paramVars, rseed, hist, shadows, pixels, fileVars>>

(* revealsecret, bmpsss.c 513-523: the matrix for pixel i = grp; a power that
   does not fit an int is undefined, the build may trap on it *)
BuildMatrix ==
    /\ pc = "build"
    /\ LET r == BuildRows(shadows, grp, k)
       IN  \E trap \in (IF r.ub THEN BOOLEAN ELSE {FALSE}) :
             IF trap
             THEN pc' = "crashed" /\ UNCHANGED mat
             ELSE pc' = "findcoefficients" /\ mat' = r.mat
    /\ UNCHANGED <<paramVars, bmp, rseed, hist, shadows, grp, pixels, fileVars>>

(* revealsecret, bmpsss.c 524: findcoefficients(mat, k) *)
FindCoefficients ==
    /\ pc = "findcoefficients"
    /\ LET r == findcoefficients(mat, k)
       IN  \E trap \in (IF r.ub THEN BOOLEAN ELSE {FALSE}) :
             IF trap
             THEN pc' = "crashed" /\ UNCHANGED mat
             ELSE pc' = "write" /\ mat' = r.mat
    /\ UNCHANGED <<paramVars, bmp, rseed, hist, shadows, grp, pixels, fileVars>>

\* bmp->imgpixels[j] = mat[j % k][k] for j = i*k .. (i+1)*k - 1, as uint8_t
WriteGroup(px, m, i, kk) ==
    [q \in DOMAIN px |-> IF q \in i * kk..(i + 1) * kk - 1 THEN m[q % kk][kk] % 256 ELSE px[q]]

WriteOutside(px, i, kk) == \E q \in i * kk..(i + 1) * kk - 1 : q \notin DOMAIN px

(* revealsecret, bmpsss.c 525-527 and the loop header 512 *)
WritePixels ==
    /\ pc = "write"
    /\ \E o \in AccessOutcomes(WriteOutside(bmp.imgpixels, grp, k)) :
         IF o = Fault
         THEN pc' = "crashed" /\ UNCHANGED <<bmp, grp>>
         ELSE /\ bmp' = [bmp EXCEPT !.imgpixels = WriteGroup(@, mat, grp, k)]
              /\ grp' = grp + 1
              /\ pc' = IF grp + 1 < bmpimagesize(shadows[1]) THEN "build" ELSE "unmask"
    /\ UNCHANGED <<paramVars, rseed, hist, shadows, pixels, mat, fileVars>>

(* revealsecret, bmpsss.c 530 and recoverimage 691-692: the mask is removed and
   the bitmap is written; a pixel that was never written holds junk *)
Unmask ==
    /\ pc = "unmask"
    /\ \E o \in (IF \E q \in DOMAIN bmp.imgpixels : bmp.imgpixels[q] = Indeterminate
                 THEN OutsideBytes ELSE {0}) :
         LET r == xorbmpwithrandomtable(rseed, Settled(bmp.imgpixels, o), shadows[1].unused1)
         IN  /\ bmp' = [bmp EXCEPT !.imgpixels = r.pixels]
             /\ rseed' = r.rseed
             /\ out' = bmp'
    /\ pc' = "recovered"
    /\ UNCHANGED <<paramVars, hist, shareVars, dir, filepaths, cur, cwd>>

----------------------------------------------------------------------------
(* The whole program: bmpsss -d on a secret and a directory of carriers, then
   bmpsss -r on k of the files it wrote. *)

\* the runs that are checked: k, n, the secret's width and height, the
\* carriers' width and height, and the samples the whitened groups are built of
PipelineRuns ==
    { [k |-> 2, n |-> 2, w |-> 4, h |-> 6, cw |-> 8, ch |-> 12, coeffs |-> {0, 128, 255}],
      [k |-> 2, n |-> 3, w |-> 4, h |-> 6, cw |-> 8, ch |-> 12, coeffs |-> {128, 255}],
      [k |-> 3, n |-> 3, w |-> 4, h |-> 9, cw |-> 8, ch |-> 12, coeffs |-> {128, 255}],
      [k |-> 2, n |-> 2, w |-> 4, h |-> 6, cw |-> 2, ch |-> 2,  coeffs |-> {1}],
      [k |-> 3, n |-> 3, w |-> 4, h |-> 7, cw |-> 8, ch |-> 12, coeffs |-> {1}],
      [k |-> 2, n |-> 2, w |-> 4, h |-> 1, cw |-> 8, ch |-> 12, coeffs |-> {1}] }

Init ==
    /\ pc = "main -d"
    /\ seed = 691
    /\ \E run \in PipelineRuns :
         /\ k = run.k /\ n = run.n
         /\ width = run.w /\ height = run.h
         /\ dir = CarrierDir(run.n, run.cw, run.ch, 0, 1)
         /\ \E ramp \in {0, MaxRamp} :
              \E tile \in [0..run.k - 1 -> run.coeffs] :
                 LET len == calculatepixelarraysize(run.w, run.h)
                     px  == SecretFor(WhitenedPixels(len, run.k, tile, ramp), seed)
                 IN  /\ bmp = Bitmap(run.w, run.h, 0, 0, px)
                     /\ hist = [NoHist EXCEPT !.pixels = <<px>>]
    /\ rseed = ZeroState
    /\ IdleShare
    /\ filepaths = <<>> /\ cur = 0 /\ cwd = NoFiles /\ out = NoBmp

Next ==
    \/ Main
    \/ GetBmpFilenames
    \/ XorSecret
    \/ FormShadows
    \/ Evaluate
    \/ Repair
    \/ Store
    \/ LoadCarrier
    \/ HideShadow
    \/ ChooseShadows
    \/ GetShadowFilenames
    \/ RetrieveShadow
    \/ RevealSecret
    \/ BuildMatrix
    \/ FindCoefficients
    \/ WritePixels
    \/ Unmask

Spec == Init /\ [][Next]_vars

\* the secret as it was read, and its length
Secret == hist.pixels[1]
SecretLen == ArrLen(hist.pixels[1])

\* the shadows handed to revealsecret are k different files of one run
DistinctShadows ==
    \A a, b \in 1..Len(shadows) : a # b => shadows[a].unused2 # shadows[b].unused2

\* C1 as claimed: distributeimage followed by recoverimage on any k of the n
\* files, with the secret's width and height, writes the secret's pixel bytes,
\* for every secret whose pixel count is divisible by k.
RoundTrip ==
    (pc = "recovered" /\ SecretLen % k = 0 /\ DistinctShadows) =>
        out.imgpixels = Secret

\* C5 as claimed: every carrier distributeimage embeds a shadow into has a
\* pixel count divisible by k and at least 8 * (|secret| / k) pixel bytes, so
\* hideshadow stays inside the carrier's pixel buffer.
CarrierCapacity ==
    pc = "hideshadow" =>
        /\ (bmp.width * bmp.height) % k = 0
        /\ bmpimagesize(bmp) >= 8 * (SecretLen \div k)
        /\ ~HideOverflows(bmp, shadows[cur + 1])

\* C6 as claimed: for a secret whose length is not divisible by k, no shadow
\* pixel is computed and no shadow file is written.
SecretDivisibilityCheck ==
    SecretLen % k # 0 =>
        /\ \A i \in DOMAIN pixels : pixels[i] = Indeterminate
        /\ cwd = NoFiles

\* the indices of the shadows handed to revealsecret are pairwise distinct and
\* non-zero modulo 257
ValidIndices ==
    /\ \A a \in 1..Len(shadows) : shadows[a].unused2 % PRIME # 0
    /\ \A a, b \in 1..Len(shadows) :
          a # b => shadows[a].unused2 % PRIME # shadows[b].unused2 % PRIME

\* C8 as claimed: a reconstructed image is written only when the k shadows
\* have valid indices; otherwise the run ends in a fatal error.
InvalidShadowsFatal ==
    pc = "recovered" => ValidIndices

----------------------------------------------------------------------------
(* The effect of the repair, seen in formshadows and in the recovered image *)

\* the whitened secret: the coefficients formshadows starts from
Whitened == xorbmpwithrandomtable(ZeroState, Secret, seed).pixels

\* the recovered image before its mask was removed
RecoveredWhitened == xorbmpwithrandomtable(ZeroState, out.imgpixels, seed).pixels

\* the coefficients of group g of px, as a sequence
GroupOf(px, g) == [r \in 1..k |-> px[g * k + r - 1]]

RECURSIVE SumSeq(_)
SumSeq(q) == IF q = <<>> THEN 0 ELSE Head(q) + SumSeq(Tail(q))

\* q with its first non-zero element lowered by one, c times over
RECURSIVE LoweredBy(_, _)
LoweredBy(q, c) ==
    IF c = 0 \/ \A r \in DOMAIN q : q[r] = 0 THEN q
    ELSE LET first == CHOOSE r \in DOMAIN q : q[r] # 0 /\ \A e \in 1..r - 1 : q[e] = 0
         IN  LoweredBy([q EXCEPT ![first] = @ - 1], c - 1)

\* the decrements that turn group g of px into group g of qx
Decrements(px, qx, g) == SumSeq(GroupOf(px, g)) - SumSeq(GroupOf(qx, g))

RECURSIVE TotalDecrements(_, _, _)
TotalDecrements(px, qx, g) ==
    IF g < 0 THEN 0 ELSE Decrements(px, qx, g) + TotalDecrements(px, qx, g - 1)

\* a step of formshadows from the check of a group back to step4 (goto step4)
RepairStep == pc = "check" /\ pc' = "step4" /\ grp' = grp

\* a repair step finds a non-zero coefficient among the k of the current group
\* and lowers the first such by one; nothing else of the pixel array changes
RepairFrame ==
    RepairStep =>
        \E q \in grp * k..grp * k + k - 1 :
            /\ bmp.imgpixels[q] # 0
            /\ \A e \in grp * k..q - 1 : bmp.imgpixels[e] = 0
            /\ bmp'.imgpixels = [bmp.imgpixels EXCEPT ![q] = @ - 1]

\* while a group is evaluated, checked and stored, the pixel array changes only
\* by a repair step, and that step is taken only on an evaluation of 256
UnrepairedFrame ==
    (pc \in {"step4", "check"} /\ bmp' # bmp) =>
        RepairStep /\ NeedsRepair(pixels)

\* the image recovered from k distinct shadows of a run with repairs is, group
\* by group, the whitened secret lowered by that group's decrements, and the
\* decrements add up to the repair steps taken
RecoveredByDecrements ==
    (pc = "recovered" /\ DistinctShadows /\ SecretLen % k = 0 /\ hist.others > 0) =>
        LET W      == Whitened
            R      == RecoveredWhitened
            groups == SecretLen \div k
        IN  /\ DOMAIN R = DOMAIN W
            /\ \A g \in 0..groups - 1 :
                  /\ Decrements(W, R, g) >= 0
                  /\ GroupOf(R, g) = LoweredBy(GroupOf(W, g), Decrements(W, R, g))
            /\ TotalDecrements(W, R, groups - 1) = hist.others

----------------------------------------------------------------------------
(* formshadows alone, on a whitened pixel array: the evaluate-then-repair loop
   of every group.  The program is one sequential process, so a step that can
   be taken is taken. *)

SetMin(S) == CHOOSE m \in S : \A o \in S : m <= o

\* coefficients of the groups that are evaluated at every index up to 255
ManyShadowsCoeffs == {0, 255}

InitRepair ==
    /\ pc = "formshadows"
    /\ k \in 2..MaxK
    /\ n \in {k, MaxN, BigN - 1}
    /\ k <= n
    /\ n = BigN - 1 => k = 2
    /\ seed = 0 /\ rseed = ZeroState
    /\ IdleShare /\ IdleFiles
    /\ width = k * SetMin(ShadowSizes) /\ height = 1
    /\ \E tile \in [0..k - 1 -> IF n = BigN - 1 THEN ManyShadowsCoeffs ELSE CoeffSamples] :
         LET px == WhitenedPixels(width, k, tile, 0)
         IN  /\ bmp = Bitmap(width, 1, 0, 0, px)
             /\ hist = [NoHist EXCEPT !.pixels = <<px>>]

NextRepair ==
    \/ FormShadows
    \/ Evaluate
    \/ Repair
    \/ Store

\* Control leaves every location of formshadows: each of the three steps is
\* enabled whenever control is at its location (FormShadows and Evaluate have
\* no other guard, and at the check either Repair or Store applies), and the
\* only steps of NextRepair that move pc this way are those steps.
FormShadowsRuns ==
    /\ WF_pc(pc = "formshadows" /\ pc' \in {"step4", "returned"})
    /\ WF_pc(pc = "step4" /\ pc' \in {"check", "crashed"})
    /\ WF_pc(pc = "check" /\ pc' \in {"step4", "returned", "crashed"})

SpecRepair == InitRepair /\ [][NextRepair]_vars /\ FormShadowsRuns

\* the repair steps taken so far are the decrements of the coefficients, and
\* every group was lowered by at most the sum of its coefficients
RepairBound ==
    pc \in {"step4", "check", "returned"} =>
        LET W      == hist.pixels[1]
            groups == ArrLen(W) \div k
        IN  /\ \A g \in 0..groups - 1 :
                  /\ Decrements(W, bmp.imgpixels, g) >= 0
                  /\ Decrements(W, bmp.imgpixels, g) <= SumSeq(GroupOf(W, g))
                  /\ g > grp => Decrements(W, bmp.imgpixels, g) = 0
            /\ TotalDecrements(W, bmp.imgpixels, groups - 1) = hist.others

\* the group counter moves only from a group whose evaluations hold no 256 to
\* the group after it
NextGroup ==
    grp' # grp => (pc = "check" /\ ~NeedsRepair(pixels) /\ grp' = grp + 1)

\* C12: for every group the evaluate-then-repair loop of formshadows ends,
\* after at most as many repair steps as the sum of the group's coefficients,
\* and goes on to the next group; formshadows as a whole returns.
RepairTermination ==
    /\ []RepairBound
    /\ [][NextGroup]_vars
    /\ (pc = "formshadows") ~> (pc = "returned")

\* formshadows returned after a group took more than 250 repair steps
RepairTerminationWitness ==
    /\ pc = "returned"
    /\ \E g \in 0..(ArrLen(hist.pixels[1]) \div k) - 1 :
          Decrements(hist.pixels[1], bmp.imgpixels, g) > 250

----------------------------------------------------------------------------
(* Hiding and retrieving: formshadows on a whitened secret, hideshadow of each
   shadow into its carrier, and retrieveshadow on the carrier that was just
   written, with the secret's width and height as recoverimage passes them. *)

\* k, and the secret's width and height: 12, 12, 9, 10 and 2 pixels per shadow
RevealRuns ==
    { [k |-> 2, w |-> 4, h |-> 6], [k |-> 3, w |-> 4, h |-> 9],
      [k |-> 2, w |-> 6, h |-> 3], [k |-> 2, w |-> 4, h |-> 5],
      [k |-> 2, w |-> 4, h |-> 1] }

RevealCoeffs == {1, 165}

InitReveal ==
    /\ pc = "formshadows"
    /\ seed = 691 /\ rseed = ZeroState
    /\ IdleShare
    /\ \E run \in RevealRuns :
         /\ k = run.k /\ n = run.k
         /\ width = run.w /\ height = run.h
         /\ \E tile \in [0..run.k - 1 -> RevealCoeffs], ramp \in {0, MaxRamp} :
              LET px == WhitenedPixels(calculatepixelarraysize(run.w, run.h), run.k, tile, ramp)
              IN  /\ bmp = Bitmap(run.w, run.h, 0, 0, px)
                  /\ hist = [NoHist EXCEPT !.pixels = <<px>>]
    /\ dir = CarrierDir(n, 8, 12, 0, 1)
    /\ filepaths = [p \in 1..n |-> p]
    /\ cur = 0 /\ cwd = NoFiles /\ out = NoBmp

(* recoverimage, bmpsss.c 685-689, on the file hideshadow has just written:
   retrieveshadow(bmpfromfile(file), width, height, k); out keeps the result *)
RetrieveHidden ==
    /\ pc = "hideloop"
    /\ out.unused2 # bmp.unused2
    /\ \E o \in AccessOutcomes(RetrieveOverflows(bmp, width, height, k)) :
         IF o = Fault
         THEN pc' = "crashed" /\ UNCHANGED out
         ELSE pc' = pc /\ out' = retrieveshadow(bmp, width, height, k, o)
    /\ UNCHANGED <<paramVars, bmp, rseed, hist, shareVars, dir, filepaths, cur, cwd>>

NextReveal ==
    \/ FormShadows
    \/ Evaluate
    \/ Repair
    \/ Store
    \/ LoadCarrier
    \/ HideShadow
    \/ RetrieveHidden

SpecReveal == InitReveal /\ [][NextReveal]_vars

\* the shadow that was hidden last, and whether out was retrieved from its carrier
HiddenShadow == shadows[cur]
Retrieved == pc = "hideloop" /\ out.unused2 = bmp.unused2

\* C13 as claimed: for a shadow S that formshadows produced and a carrier of at
\* least 8*|S.pixels| bytes, retrieveshadow on the carrier hideshadow wrote,
\* with the secret's width and height and k, yields the width, height, pixel
\* bytes, seed and shadow index of S.
HideRevealRoundTrip ==
    (Retrieved /\ bmpimagesize(bmp) >= 8 * bmpimagesize(HiddenShadow)) =>
        /\ out.width = HiddenShadow.width
        /\ out.height = HiddenShadow.height
        /\ out.unused1 = HiddenShadow.unused1
        /\ out.unused2 = HiddenShadow.unused2
        /\ DOMAIN out.imgpixels = DOMAIN HiddenShadow.imgpixels
        /\ \A q \in DOMAIN HiddenShadow.imgpixels :
              HiddenShadow.imgpixels[q] # Indeterminate =>
                  out.imgpixels[q] = HiddenShadow.imgpixels[q]

----------------------------------------------------------------------------
(* The dimensions formshadows gives its shadows: findclosestpair on every
   shadow size up to MaxPairSize, from the entry of formshadows. *)

MaxPairSize == 40        \* largest pixelsPerShadow

InitPair ==
    /\ pc = "formshadows"
    /\ k = 2 /\ n = 2
    /\ seed = 0 /\ rseed = ZeroState
    /\ IdleShare /\ IdleFiles
    /\ \E p \in 1..MaxPairSize :
         /\ width = k * p /\ height = 1
         /\ bmp = Bitmap(k * p, 1, 0, 0, [q \in 0..k * p - 1 |-> 0])
    /\ hist = NoHist

NextPair == FormShadows

SpecPair == InitPair /\ [][NextPair]_vars

\* the divisors of p up to floor(sqrt(p))
LowDivisors(p) == {y \in 1..ISqrt(p) : p % y = 0}

\* C14 as claimed: for every pixelsPerShadow p >= 1 the shadows get the largest
\* divisor of p not exceeding floor(sqrt(p)) as width and p / width as height,
\* so that width * height = p.
ShadowDimensions ==
    (pc \in {"step4", "returned"} /\ shadows # <<>>) =>
        LET p == bmpimagesize(bmp) \div k
        IN  \A i \in 1..n :
               /\ shadows[i].width = SetMax(LowDivisors(p))
               /\ shadows[i].height = p \div shadows[i].width
               /\ shadows[i].width * shadows[i].height = p

----------------------------------------------------------------------------
(* The solver alone: one turn of the loop of revealsecret on k one-pixel
   shadows that hold the values of a polynomial at k distinct indices. *)

MaxSolveK == 4

SolveIndices == {1, 2, 3, 254, 255}
SolveCoeffs == {0, 7, 200, 255}

\* the sequences of kk pairwise distinct elements of S
Arrangements(S, kk) ==
    {q \in [1..kk -> S] : \A a, b \in 1..kk : a # b => q[a] # q[b]}

InitSolve ==
    /\ pc = "build"
    /\ k \in 2..MaxSolveK
    /\ n = k /\ seed = 0 /\ width = k /\ height = 1
    /\ rseed = ZeroState
    /\ grp = 0 /\ pixels = <<>>
    /\ mat = [j \in 0..k - 1 |-> [t \in 0..k |-> Indeterminate]]
    /\ bmp = newbitmap(width, height, seed)
    /\ \E xs \in Arrangements(SolveIndices, k) :
         \E a \in [0..k - 1 -> SolveCoeffs] :
            /\ \A j \in 1..k : Horner(a, 0, xs[j], 0) <= 255
            /\ hist = [NoHist EXCEPT !.pixels = <<a>>]
            /\ shadows = [j \in 1..k |->
                  Bitmap(1, 1, seed, xs[j], [q \in {0} |-> Horner(a, 0, xs[j], 0)])]
    /\ IdleFiles

NextSolve ==
    \/ BuildMatrix
    \/ FindCoefficients
    \/ WritePixels

SpecSolve == InitSolve /\ [][NextSolve]_vars

\* C9 as claimed: for any k pairwise distinct indices in [1, 255] in any row
\* order and coefficients a_0..a_{k-1} whose values are all at most 255,
\* findcoefficients leaves mat[r][k] = a_r for every row r, and revealsecret
\* writes these to the output pixels.
ReconstructionCorrect ==
    /\ pc = "write" => \A r \in 0..k - 1 : mat[r][k] = Secret[r]
    /\ pc = "unmask" => \A r \in 0..k - 1 : bmp.imgpixels[r] = Secret[r]

\* x^t modulo 257
RECURSIVE ModPower(_, _)
ModPower(x, t) == IF t = 0 THEN 1 ELSE (x * ModPower(x, t - 1)) % PRIME

\* C15 as claimed: every entry of the matrix revealsecret hands to
\* findcoefficients lies in [0, 257), column t < k of row j is x_j^t mod 257,
\* and the running power of the index never leaves the range of an int.
MatrixRange ==
    /\ pc = "build" => ~BuildRows(shadows, grp, k).ub
    /\ pc = "findcoefficients" =>
          \A j \in 0..k - 1 :
             /\ \A t \in 0..k : mat[j][t] \in 0..PRIME - 1
             /\ \A t \in 0..k - 1 : mat[j][t] = ModPower(shadows[j + 1].unused2, t)

=============================================================================
